---------------------------- MODULE Spec2Model ----------------------------
(***************************************************************************)
(* llm-strings: the normalize + validate pipeline over a parsed            *)
(* connection record {host, model, params}.                                *)
(*                                                                         *)
(* Strings are TLA+ strings, read character by character with SubSeq, so   *)
(* that substring tests, splits, the duration pattern and Number() are     *)
(* computed from the text as the code computes them.  A params object is a *)
(* sequence of [k, v] entries in insertion order with pairwise distinct    *)
(* keys (no key of the model is integer-like, so JavaScript's property     *)
(* order is insertion order).  JavaScript's undefined is the string        *)
(* "undefined" for a provider / family and an absent key for a table.      *)
(***************************************************************************)
EXTENDS Integers, Sequences, FiniteSets, TLC

VARIABLES
    cfg,      \* the parsed connection record: [host, model, params]
    op,       \* which entry point has run: "none", "normalize", "validate"
    opt,      \* the option it ran with: verbose (normalize) or strict (validate)
    norm,     \* normalize's result: [params, provider, subProvider, changes]
    issues,   \* validate's result: the list of issues
    prev      \* the first call when the caller makes a second one, and how
              \* the second follows it: [step, cfg, op, opt, norm, issues]

vars == <<cfg, op, opt, norm, issues, prev>>

undefined == "undefined"

-----------------------------------------------------------------------------
(* String primitives of the JavaScript runtime the code relies on.          *)

\* s[i], 1-based; "" outside the string
CharAt(s, i) == IF i >= 1 /\ i <= Len(s) THEN SubSeq(s, i, i) ELSE ""

\* String.prototype.includes
Includes(s, sub) ==
    \E i \in 1..(Len(s) - Len(sub) + 1) : SubSeq(s, i, i + Len(sub) - 1) = sub

\* String.prototype.indexOf for a one-character needle: 0-based, -1 if absent
IndexOf(s, ch) ==
    IF \E i \in 1..Len(s) : CharAt(s, i) = ch
    THEN (CHOOSE i \in 1..Len(s) :
             /\ CharAt(s, i) = ch
             /\ \A j \in 1..(i - 1) : CharAt(s, j) # ch) - 1
    ELSE -1

\* String.prototype.lastIndexOf, 0-based, -1 if absent
LastIndexOf(s, ch) ==
    IF \E i \in 1..Len(s) : CharAt(s, i) = ch
    THEN (CHOOSE i \in 1..Len(s) :
             /\ CharAt(s, i) = ch
             /\ \A j \in (i + 1)..Len(s) : CharAt(s, j) # ch) - 1
    ELSE -1

\* String.prototype.slice(from, to) with 0-based half-open bounds
Slice(s, from, to) == SubSeq(s, from + 1, to)

\* s.split(sep): the list of segments between the separators
RECURSIVE Split(_, _)
Split(s, sep) ==
    LET i == IndexOf(s, sep)
    IN  IF i = -1 THEN <<s>>
        ELSE <<Slice(s, 0, i)>> \o Split(Slice(s, i + 1, Len(s)), sep)

Digits == {"0", "1", "2", "3", "4", "5", "6", "7", "8", "9"}

DigitVal(c) ==
    CASE c = "0" -> 0 [] c = "1" -> 1 [] c = "2" -> 2 [] c = "3" -> 3
      [] c = "4" -> 4 [] c = "5" -> 5 [] c = "6" -> 6 [] c = "7" -> 7
      [] c = "8" -> 8 [] c = "9" -> 9 [] OTHER -> 0

AllDigits(s) == \A i \in 1..Len(s) : CharAt(s, i) \in Digits

RECURSIVE DigitsVal(_)
DigitsVal(s) ==
    IF Len(s) = 0 THEN 0
    ELSE 10 * DigitsVal(SubSeq(s, 1, Len(s) - 1)) + DigitVal(CharAt(s, Len(s)))

RECURSIVE Pow10(_)
Pow10(n) == IF n <= 0 THEN 1 ELSE 10 * Pow10(n - 1)

WhiteSpace == {" ", "\t", "\n", "\r"}

RECURSIVE TrimStart(_)
TrimStart(s) ==
    IF Len(s) > 0 /\ CharAt(s, 1) \in WhiteSpace
    THEN TrimStart(SubSeq(s, 2, Len(s))) ELSE s

RECURSIVE TrimEnd(_)
TrimEnd(s) ==
    IF Len(s) > 0 /\ CharAt(s, Len(s)) \in WhiteSpace
    THEN TrimEnd(SubSeq(s, 1, Len(s) - 1)) ELSE s

NaN == [kind |-> "nan", neg |-> FALSE, mant |-> 0, exp |-> 0]
Infinite(neg) == [kind |-> "inf", neg |-> neg, mant |-> 0, exp |-> 0]
Finite(neg, mant, exp) == [kind |-> "fin", neg |-> neg, mant |-> mant, exp |-> exp]

\* An unsigned decimal literal: digits [. digits] | . digits, then an optional
\* exponent e[+-]digits.  The value is mant * 10^exp.
UnsignedDecimal(neg, t) ==
    LET ePos  == IF IndexOf(t, "e") # -1 THEN IndexOf(t, "e") ELSE IndexOf(t, "E")
        body  == IF ePos = -1 THEN t ELSE Slice(t, 0, ePos)
        etxt  == IF ePos = -1 THEN "" ELSE Slice(t, ePos + 1, Len(t))
        esign == CharAt(etxt, 1) \in {"+", "-"}
        edig  == IF esign THEN SubSeq(etxt, 2, Len(etxt)) ELSE etxt
        eOk   == ePos = -1 \/ (Len(edig) > 0 /\ AllDigits(edig))
        eVal  == IF ePos = -1 THEN 0
                 ELSE IF CharAt(etxt, 1) = "-" THEN 0 - DigitsVal(edig)
                 ELSE DigitsVal(edig)
        dot   == IndexOf(body, ".")
        ip    == IF dot = -1 THEN body ELSE Slice(body, 0, dot)
        fp    == IF dot = -1 THEN "" ELSE Slice(body, dot + 1, Len(body))
        bOk   == AllDigits(ip) /\ AllDigits(fp) /\ Len(ip) + Len(fp) > 0
    IN  IF bOk /\ eOk
        THEN Finite(neg, DigitsVal(ip \o fp), eVal - Len(fp))
        ELSE NaN

\* Number(value) on a string (StringToNumber): surrounding white space is
\* ignored, the empty string is 0, then a signed decimal literal or Infinity;
\* anything else is NaN.  Radix literals (0x, 0o, 0b) do not occur in the
\* value alphabet of the model.
Number(value) ==
    LET t    == TrimEnd(TrimStart(value))
        sign == CharAt(t, 1) \in {"+", "-"}
        neg  == CharAt(t, 1) = "-"
        u    == IF sign THEN SubSeq(t, 2, Len(t)) ELSE t
    IN  IF Len(t) = 0 THEN Finite(FALSE, 0, 0)
        ELSE IF u = "Infinity" THEN Infinite(neg)
        ELSE UnsignedDecimal(neg, u)

isNaN(num) == num.kind = "nan"

\* num < b and num > b for a number and an integer bound
NumLess(num, b) ==
    CASE num.kind = "nan" -> FALSE
      [] num.kind = "inf" -> num.neg
      [] OTHER ->
           LET m == IF num.neg THEN 0 - num.mant ELSE num.mant
           IN  IF num.exp >= 0 THEN m * Pow10(num.exp) < b
               ELSE m < b * Pow10(0 - num.exp)

NumGreater(num, b) ==
    CASE num.kind = "nan" -> FALSE
      [] num.kind = "inf" -> ~num.neg
      [] OTHER ->
           LET m == IF num.neg THEN 0 - num.mant ELSE num.mant
           IN  IF num.exp >= 0 THEN m * Pow10(num.exp) > b
               ELSE m > b * Pow10(0 - num.exp)

-----------------------------------------------------------------------------
(* Provider registry: provider-core.ts                                      *)

Providers ==
    {"openai", "anthropic", "google", "mistral", "cohere",
     "bedrock", "openrouter", "vercel"}

\* detectProvider trying the native vendors before the hosting vendor
detectProvider_VendorsFirst(host) ==
    IF Includes(host, "openrouter") THEN "openrouter"
    ELSE IF Includes(host, "gateway.ai.vercel") THEN "vercel"
    ELSE IF Includes(host, "openai") THEN "openai"
    ELSE IF Includes(host, "anthropic") \/ Includes(host, "claude") THEN "anthropic"
    ELSE IF Includes(host, "googleapis") \/ Includes(host, "google") THEN "google"
    ELSE IF Includes(host, "mistral") THEN "mistral"
    ELSE IF Includes(host, "cohere") THEN "cohere"
    ELSE IF Includes(host, "amazonaws") \/ Includes(host, "bedrock") THEN "bedrock"
    ELSE undefined

\* detectProvider falling back to a default vendor
detectProvider_DefaultOpenAI(host) ==
    IF Includes(host, "openrouter") THEN "openrouter"
    ELSE IF Includes(host, "gateway.ai.vercel") THEN "vercel"
    ELSE IF Includes(host, "amazonaws") \/ Includes(host, "bedrock") THEN "bedrock"
    ELSE IF Includes(host, "anthropic") \/ Includes(host, "claude") THEN "anthropic"
    ELSE IF Includes(host, "googleapis") \/ Includes(host, "google") THEN "google"
    ELSE IF Includes(host, "mistral") THEN "mistral"
    ELSE IF Includes(host, "cohere") THEN "cohere"
    ELSE "openai"

detectProvider(host) ==
    IF Includes(host, "openrouter") THEN "openrouter"
    ELSE IF Includes(host, "gateway.ai.vercel") THEN "vercel"
    ELSE IF Includes(host, "amazonaws") \/ Includes(host, "bedrock") THEN "bedrock"
    ELSE IF Includes(host, "openai") THEN "openai"
    ELSE IF Includes(host, "anthropic") \/ Includes(host, "claude") THEN "anthropic"
    ELSE IF Includes(host, "googleapis") \/ Includes(host, "google") THEN "google"
    ELSE IF Includes(host, "mistral") THEN "mistral"
    ELSE IF Includes(host, "cohere") THEN "cohere"
    ELSE undefined

ALIASES ==
    ("temp" :> "temperature")
 @@ ("max" :> "max_tokens") @@ ("max_out" :> "max_tokens")
 @@ ("max_output" :> "max_tokens") @@ ("max_output_tokens" :> "max_tokens")
 @@ ("max_completion_tokens" :> "max_tokens")
 @@ ("maxOutputTokens" :> "max_tokens") @@ ("maxTokens" :> "max_tokens")
 @@ ("topp" :> "top_p") @@ ("topP" :> "top_p") @@ ("nucleus" :> "top_p")
 @@ ("topk" :> "top_k") @@ ("topK" :> "top_k")
 @@ ("freq" :> "frequency_penalty") @@ ("freq_penalty" :> "frequency_penalty")
 @@ ("frequencyPenalty" :> "frequency_penalty")
 @@ ("repetition_penalty" :> "frequency_penalty")
 @@ ("pres" :> "presence_penalty") @@ ("pres_penalty" :> "presence_penalty")
 @@ ("presencePenalty" :> "presence_penalty")
 @@ ("stop_sequences" :> "stop") @@ ("stopSequences" :> "stop")
 @@ ("stop_sequence" :> "stop")
 @@ ("random_seed" :> "seed") @@ ("randomSeed" :> "seed")
 @@ ("candidateCount" :> "n") @@ ("candidate_count" :> "n")
 @@ ("num_completions" :> "n")
 @@ ("reasoning_effort" :> "effort") @@ ("reasoning" :> "effort")
 @@ ("cache_control" :> "cache") @@ ("cacheControl" :> "cache")
 @@ ("cachePoint" :> "cache") @@ ("cache_point" :> "cache")

\* The param map shared by the two gateways (openrouter, vercel)
GatewayParams ==
    ("temperature" :> "temperature") @@ ("max_tokens" :> "max_tokens")
 @@ ("top_p" :> "top_p") @@ ("top_k" :> "top_k")
 @@ ("frequency_penalty" :> "frequency_penalty")
 @@ ("presence_penalty" :> "presence_penalty")
 @@ ("stop" :> "stop") @@ ("n" :> "n") @@ ("seed" :> "seed")
 @@ ("stream" :> "stream") @@ ("effort" :> "reasoning_effort")

PROVIDER_PARAMS ==
    ("openai" :>
        ( ("temperature" :> "temperature") @@ ("max_tokens" :> "max_tokens")
       @@ ("top_p" :> "top_p")
       @@ ("frequency_penalty" :> "frequency_penalty")
       @@ ("presence_penalty" :> "presence_penalty")
       @@ ("stop" :> "stop") @@ ("n" :> "n") @@ ("seed" :> "seed")
       @@ ("stream" :> "stream") @@ ("effort" :> "reasoning_effort") ))
 @@ ("anthropic" :>
        ( ("temperature" :> "temperature") @@ ("max_tokens" :> "max_tokens")
       @@ ("top_p" :> "top_p") @@ ("top_k" :> "top_k")
       @@ ("stop" :> "stop_sequences") @@ ("stream" :> "stream")
       @@ ("effort" :> "effort") @@ ("cache" :> "cache_control")
       @@ ("cache_ttl" :> "cache_ttl") ))
 @@ ("google" :>
        ( ("temperature" :> "temperature") @@ ("max_tokens" :> "maxOutputTokens")
       @@ ("top_p" :> "topP") @@ ("top_k" :> "topK")
       @@ ("frequency_penalty" :> "frequencyPenalty")
       @@ ("presence_penalty" :> "presencePenalty")
       @@ ("stop" :> "stopSequences") @@ ("n" :> "candidateCount")
       @@ ("stream" :> "stream") @@ ("seed" :> "seed")
       @@ ("responseMimeType" :> "responseMimeType")
       @@ ("responseSchema" :> "responseSchema") ))
 @@ ("mistral" :>
        ( ("temperature" :> "temperature") @@ ("max_tokens" :> "max_tokens")
       @@ ("top_p" :> "top_p")
       @@ ("frequency_penalty" :> "frequency_penalty")
       @@ ("presence_penalty" :> "presence_penalty")
       @@ ("stop" :> "stop") @@ ("n" :> "n") @@ ("seed" :> "random_seed")
       @@ ("stream" :> "stream") @@ ("safe_prompt" :> "safe_prompt")
       @@ ("min_tokens" :> "min_tokens") ))
 @@ ("cohere" :>
        ( ("temperature" :> "temperature") @@ ("max_tokens" :> "max_tokens")
       @@ ("top_p" :> "p") @@ ("top_k" :> "k")
       @@ ("frequency_penalty" :> "frequency_penalty")
       @@ ("presence_penalty" :> "presence_penalty")
       @@ ("stop" :> "stop_sequences") @@ ("stream" :> "stream")
       @@ ("seed" :> "seed") ))
 @@ ("bedrock" :>
        ( ("temperature" :> "temperature") @@ ("max_tokens" :> "maxTokens")
       @@ ("top_p" :> "topP") @@ ("top_k" :> "topK")
       @@ ("stop" :> "stopSequences") @@ ("stream" :> "stream")
       @@ ("cache" :> "cache_control") @@ ("cache_ttl" :> "cache_ttl") ))
 @@ ("openrouter" :> GatewayParams)
 @@ ("vercel" :> GatewayParams)

\* ParamSpec: the type tag, the optional bounds and the optional value list
NumSpec(hasMin, min, hasMax, max) ==
    [type |-> "number", hasMin |-> hasMin, min |-> min,
     hasMax |-> hasMax, max |-> max, hasValues |-> FALSE, values |-> {}]
NumRange(min, max) == NumSpec(TRUE, min, TRUE, max)
NumMin(min) == NumSpec(TRUE, min, FALSE, 0)
NumAny == NumSpec(FALSE, 0, FALSE, 0)
BoolSpec ==
    [type |-> "boolean", hasMin |-> FALSE, min |-> 0,
     hasMax |-> FALSE, max |-> 0, hasValues |-> FALSE, values |-> {}]
StrSpec ==
    [type |-> "string", hasMin |-> FALSE, min |-> 0,
     hasMax |-> FALSE, max |-> 0, hasValues |-> FALSE, values |-> {}]
EnumSpec(values) ==
    [type |-> "string", hasMin |-> FALSE, min |-> 0,
     hasMax |-> FALSE, max |-> 0, hasValues |-> TRUE, values |-> values]

OpenAIEfforts == {"none", "minimal", "low", "medium", "high", "xhigh"}

\* The gateways' spec table with the effort spec under the canonical name
GatewaySpecs_CanonicalEffort ==
    ("temperature" :> NumRange(0, 2)) @@ ("max_tokens" :> NumMin(1))
 @@ ("top_p" :> NumRange(0, 1)) @@ ("top_k" :> NumMin(0))
 @@ ("frequency_penalty" :> NumRange(-2, 2))
 @@ ("presence_penalty" :> NumRange(-2, 2))
 @@ ("stop" :> StrSpec) @@ ("n" :> NumMin(1)) @@ ("seed" :> NumAny)
 @@ ("stream" :> BoolSpec) @@ ("effort" :> EnumSpec(OpenAIEfforts))

\* The spec table shared by the two gateways (openrouter, vercel)
GatewaySpecs ==
    ("temperature" :> NumRange(0, 2)) @@ ("max_tokens" :> NumMin(1))
 @@ ("top_p" :> NumRange(0, 1)) @@ ("top_k" :> NumMin(0))
 @@ ("frequency_penalty" :> NumRange(-2, 2))
 @@ ("presence_penalty" :> NumRange(-2, 2))
 @@ ("stop" :> StrSpec) @@ ("n" :> NumMin(1)) @@ ("seed" :> NumAny)
 @@ ("stream" :> BoolSpec) @@ ("reasoning_effort" :> EnumSpec(OpenAIEfforts))

PARAM_SPECS ==
    ("openai" :>
        ( ("temperature" :> NumRange(0, 2)) @@ ("max_tokens" :> NumMin(1))
       @@ ("top_p" :> NumRange(0, 1))
       @@ ("frequency_penalty" :> NumRange(-2, 2))
       @@ ("presence_penalty" :> NumRange(-2, 2))
       @@ ("stop" :> StrSpec) @@ ("n" :> NumMin(1)) @@ ("seed" :> NumAny)
       @@ ("stream" :> BoolSpec)
       @@ ("reasoning_effort" :> EnumSpec(OpenAIEfforts)) ))
 @@ ("anthropic" :>
        ( ("temperature" :> NumRange(0, 1)) @@ ("max_tokens" :> NumMin(1))
       @@ ("top_p" :> NumRange(0, 1)) @@ ("top_k" :> NumMin(0))
       @@ ("stop_sequences" :> StrSpec) @@ ("stream" :> BoolSpec)
       @@ ("effort" :> EnumSpec({"low", "medium", "high", "max"}))
       @@ ("cache_control" :> EnumSpec({"ephemeral"}))
       @@ ("cache_ttl" :> EnumSpec({"5m", "1h"})) ))
 @@ ("google" :>
        ( ("temperature" :> NumRange(0, 2)) @@ ("maxOutputTokens" :> NumMin(1))
       @@ ("topP" :> NumRange(0, 1)) @@ ("topK" :> NumMin(0))
       @@ ("frequencyPenalty" :> NumRange(-2, 2))
       @@ ("presencePenalty" :> NumRange(-2, 2))
       @@ ("stopSequences" :> StrSpec) @@ ("candidateCount" :> NumMin(1))
       @@ ("stream" :> BoolSpec) @@ ("seed" :> NumAny)
       @@ ("responseMimeType" :> StrSpec) @@ ("responseSchema" :> StrSpec) ))
 @@ ("mistral" :>
        ( ("temperature" :> NumRange(0, 1)) @@ ("max_tokens" :> NumMin(1))
       @@ ("top_p" :> NumRange(0, 1))
       @@ ("frequency_penalty" :> NumRange(-2, 2))
       @@ ("presence_penalty" :> NumRange(-2, 2))
       @@ ("stop" :> StrSpec) @@ ("n" :> NumMin(1))
       @@ ("random_seed" :> NumAny) @@ ("stream" :> BoolSpec)
       @@ ("safe_prompt" :> BoolSpec) @@ ("min_tokens" :> NumMin(0)) ))
 @@ ("cohere" :>
        ( ("temperature" :> NumRange(0, 1)) @@ ("max_tokens" :> NumMin(1))
       @@ ("p" :> NumRange(0, 1)) @@ ("k" :> NumRange(0, 500))
       @@ ("frequency_penalty" :> NumRange(0, 1))
       @@ ("presence_penalty" :> NumRange(0, 1))
       @@ ("stop_sequences" :> StrSpec) @@ ("stream" :> BoolSpec)
       @@ ("seed" :> NumAny) ))
 @@ ("bedrock" :>
        ( ("temperature" :> NumRange(0, 1)) @@ ("maxTokens" :> NumMin(1))
       @@ ("topP" :> NumRange(0, 1)) @@ ("topK" :> NumMin(0))
       @@ ("stopSequences" :> StrSpec) @@ ("stream" :> BoolSpec)
       @@ ("cache_control" :> EnumSpec({"ephemeral"}))
       @@ ("cache_ttl" :> EnumSpec({"5m", "1h"})) ))
 @@ ("openrouter" :> GatewaySpecs)
 @@ ("vercel" :> GatewaySpecs)

\* the name taken after the first slash instead of the last
isReasoningModel_AfterFirstSlash(model) ==
    LET name == IF Includes(model, "/")
                THEN Slice(model, IndexOf(model, "/") + 1, Len(model))
                ELSE model
    IN  CharAt(name, 1) = "o" /\ CharAt(name, 2) \in {"1", "3", "4"}

\* /^o[134]/ on the text after the last "/" (model.split("/").pop())
isReasoningModel(model) ==
    LET name == IF Includes(model, "/")
                THEN Slice(model, LastIndexOf(model, "/") + 1, Len(model))
                ELSE model
    IN  CharAt(name, 1) = "o" /\ CharAt(name, 2) \in {"1", "3", "4"}

canHostOpenAIModels(provider) ==
    provider = "openai" \/ provider = "openrouter" \/ provider = "vercel"

\* the gateway test taken for the test above
isGatewayProvider_HostsOpenAI(provider) == canHostOpenAIModels(provider)

isGatewayProvider(provider) ==
    provider = "openrouter" \/ provider = "vercel"

DirectProviders == {"openai", "anthropic", "google", "mistral", "cohere"}

\* the prefix looked up among all providers, not only the direct ones
detectGatewaySubProvider_AnyProvider(model) ==
    LET slash  == IndexOf(model, "/")
        prefix == Slice(model, 0, slash)
    IN  IF slash < 1 THEN undefined
        ELSE IF prefix \in Providers THEN prefix
        ELSE undefined

detectGatewaySubProvider(model) ==
    LET slash  == IndexOf(model, "/")
        prefix == Slice(model, 0, slash)
    IN  IF slash < 1 THEN undefined
        ELSE IF prefix \in DirectProviders THEN prefix
        ELSE undefined

REASONING_MODEL_UNSUPPORTED ==
    {"temperature", "top_p", "frequency_penalty", "presence_penalty", "n"}

BedrockFamilies == {"anthropic", "meta", "amazon", "mistral", "cohere", "ai21"}

\* the first segment taken as it is, routing token or not
detectBedrockModelFamily_NoRouting(model) ==
    LET parts  == Split(model, ".")
        prefix == parts[1]
    IN  IF prefix \in BedrockFamilies THEN prefix ELSE undefined

detectBedrockModelFamily(model) ==
    LET parts  == Split(model, ".")
        prefix == IF parts[1] \in {"us", "eu", "apac", "global"} /\ Len(parts) > 1
                  THEN parts[2] ELSE parts[1]
    IN  IF prefix \in BedrockFamilies THEN prefix ELSE undefined

\* every Amazon model taken as caching, Nova or not
bedrockSupportsCaching_AnyAmazon(model) ==
    LET family == detectBedrockModelFamily(model)
    IN  family = "anthropic" \/ family = "amazon"

bedrockSupportsCaching(model) ==
    LET family == detectBedrockModelFamily(model)
    IN  \/ family = "anthropic"
        \/ family = "amazon" /\ Includes(model, "nova")

\* undefined for the providers without an explicit cache param
CACHE_VALUES ==
    [p \in Providers |->
        IF p \in {"anthropic", "bedrock"} THEN "ephemeral" ELSE undefined]

\* the empty set stands for undefined (the code tests the entry's truthiness)
CACHE_TTLS ==
    [p \in Providers |->
        IF p \in {"anthropic", "bedrock"} THEN {"5m", "1h"} ELSE {}]

\* DURATION_RE = /^\d+[mh]$/
DURATION_RE(value) ==
    /\ Len(value) >= 2
    /\ AllDigits(SubSeq(value, 1, Len(value) - 1))
    /\ CharAt(value, Len(value)) \in {"m", "h"}

-----------------------------------------------------------------------------
(* Params objects: Record<string, string> in insertion order                *)

Keys(params) == {params[i].k : i \in 1..Len(params)}

HasKey(params, key) == key \in Keys(params)

\* params[key], for a key the object has
Get(params, key) == (CHOOSE i \in 1..Len(params) : params[i].k = key)

ValueOf(params, key) == params[Get(params, key)].v

\* params[key] = value: an existing key keeps its place, a new key is appended
Put(params, key, value) ==
    IF HasKey(params, key)
    THEN [params EXCEPT ![Get(params, key)] = [k |-> key, v |-> value]]
    ELSE Append(params, [k |-> key, v |-> value])

-----------------------------------------------------------------------------
(* normalize: normalize.ts                                                  *)

Change(from, to, value, reason) ==
    [from |-> from, to |-> to, value |-> value, reason |-> reason]

\* the change log kept whatever the option
Log_Always(changes, verbose, change) == Append(changes, change)

\* the change log grows only in verbose mode
Log(changes, verbose, change) ==
    IF verbose THEN Append(changes, change) ELSE changes

\* Step 1 without the expansion
ExpandAlias_Skipped(key) == key

\* Step 1: the canonical name of a key
ExpandAlias(key) == IF key \in DOMAIN ALIASES THEN ALIASES[key] ELSE key

\* Step 2 without the Bedrock model test
CacheValueFor_AnyModel(provider, model) == CACHE_VALUES[provider]

\* Step 2: the cache value of the provider for this model; undefined when the
\* provider / model has no explicit cache param
CacheValueFor(provider, model) ==
    IF provider = "bedrock" /\ ~bedrockSupportsCaching(model) THEN undefined
    ELSE CACHE_VALUES[provider]

\* Step 2 taking every value but false and 0 as switching the cache on
IsCacheBool_Truthy(value) == value \notin {"false", "0", ""}

\* Step 2: the values that switch the cache on
IsCacheBool(value) == value = "true" \/ value = "1" \/ value = "yes"

\* Step 2 writing the cache value under the canonical name
CacheKeyFor_Canonical(provider) == "cache"

\* Step 2: PROVIDER_PARAMS[provider]?.["cache"] ?? "cache"
CacheKeyFor(provider) ==
    IF "cache" \in DOMAIN PROVIDER_PARAMS[provider]
    THEN PROVIDER_PARAMS[provider]["cache"] ELSE "cache"

\* Step 2 emitting cache_ttl for every value that switches the cache on
EmitsCacheTtl_AnyValue(provider, value) == CACHE_TTLS[provider] # {}

\* Step 2 with the duration checked against the provider's TTL list
EmitsCacheTtl_ListedOnly(provider, value) ==
    DURATION_RE(value) /\ value \in CACHE_TTLS[provider]

\* Step 2: a duration is also emitted as cache_ttl, for a provider with TTLs
EmitsCacheTtl(provider, value) ==
    DURATION_RE(value) /\ CACHE_TTLS[provider] # {}

\* Step 3: the provider's own name of a canonical key
ProviderKey(provider, key) ==
    IF provider # undefined /\ key \in DOMAIN PROVIDER_PARAMS[provider]
    THEN PROVIDER_PARAMS[provider][key] ELSE key

\* Step 4 for the OpenAI host only, not through a gateway
IsReasoningRename_DirectOnly(provider, model, key) ==
    provider = "openai" /\ isReasoningModel(model) /\ key = "max_tokens"

\* Step 4: whether max_tokens is renamed for an OpenAI reasoning model
IsReasoningRename(provider, model, key) ==
    /\ provider # undefined
    /\ canHostOpenAIModels(provider)
    /\ isReasoningModel(model)
    /\ key = "max_tokens"

\* One turn of the loop over Object.entries(config.params): acc is
\* [params, changes], the output built so far.
NormalizeEntry(acc, rawKey, value, provider, model, verbose) ==
    LET key1     == ExpandAlias(rawKey)
        ch1      == IF key1 # rawKey
                    THEN Log(acc.changes, verbose,
                             Change(rawKey, key1, value, "alias"))
                    ELSE acc.changes
        isCache  == key1 = "cache" /\ provider # undefined
        cacheVal == IF isCache THEN CacheValueFor(provider, model) ELSE undefined
        isBool   == IsCacheBool(value)
        isDur    == DURATION_RE(value)
        key3     == ProviderKey(provider, key1)
        ch3      == IF key3 # key1
                    THEN Log(ch1, verbose, Change(key1, key3, value, "provider"))
                    ELSE ch1
        rename   == IsReasoningRename(provider, model, key3)
        key4     == IF rename THEN "max_completion_tokens" ELSE key3
        ch4      == IF rename
                    THEN Log(ch3, verbose,
                             Change("max_tokens", "max_completion_tokens",
                                    value, "reasoning"))
                    ELSE ch3
    IN  IF isCache /\ cacheVal = undefined
        THEN \* dropped
             [params  |-> acc.params,
              changes |-> Log(ch1, verbose,
                              Change("cache", "(dropped)", value, "dropped"))]
        ELSE IF isCache /\ (isBool \/ isDur)
        THEN LET ck  == CacheKeyFor(provider)
                 p1  == Put(acc.params, ck, cacheVal)
                 c1  == Log(ch1, verbose, Change("cache", ck, cacheVal, "cache"))
                 ttl == EmitsCacheTtl(provider, value)
             IN  [params  |-> IF ttl THEN Put(p1, "cache_ttl", value) ELSE p1,
                  changes |-> IF ttl
                              THEN Log(c1, verbose,
                                       Change("cache", "cache_ttl", value,
                                              "cache_ttl"))
                              ELSE c1]
        ELSE [params |-> Put(acc.params, key4, value), changes |-> ch4]

RECURSIVE NormalizeLoop(_, _, _, _, _, _)
NormalizeLoop(acc, entries, i, provider, model, verbose) ==
    IF i > Len(entries) THEN acc
    ELSE NormalizeLoop(
             NormalizeEntry(acc, entries[i].k, entries[i].v,
                            provider, model, verbose),
             entries, i + 1, provider, model, verbose)

\* The sub-provider normalize hands to validate: the provider the model prefix
\* names when the request goes through a gateway.
SubProviderOf(provider, model) ==
    IF provider # undefined /\ isGatewayProvider(provider)
    THEN detectGatewaySubProvider(model)
    ELSE undefined

\* normalize blanking the API key in the record it returns
normalize_RedactsApiKey(config, verbose) ==
    LET provider == detectProvider(config.host)
        out      == NormalizeLoop([params |-> <<>>, changes |-> <<>>],
                                  config.params, 1, provider, config.model,
                                  verbose)
    IN  [config      |-> [config EXCEPT !.params = out.params,
                                        !.apiKey = undefined],
         provider    |-> provider,
         subProvider |-> SubProviderOf(provider, config.model),
         changes     |-> out.changes]

\* the record returned is { ...config, params }: every field of the input
\* but params is carried over
normalize(config, verbose) ==
    LET provider == detectProvider(config.host)
        out      == NormalizeLoop([params |-> <<>>, changes |-> <<>>],
                                  config.params, 1, provider, config.model,
                                  verbose)
    IN  [config      |-> [config EXCEPT !.params = out.params],
         provider    |-> provider,
         subProvider |-> SubProviderOf(provider, config.model),
         changes     |-> out.changes]

-----------------------------------------------------------------------------
(* validate: the validator that parses, normalizes and checks               *)

\* An issue; the message is its fixed text and the names it interpolates
Issue(param, value, message, severity) ==
    [param |-> param, value |-> value, message |-> message,
     severity |-> severity]

\* the severity without strict mode
UnknownSeverity_NeverStrict(strict) == "warning"

\* the severity with the test of strict inverted
UnknownSeverity_Inverted(strict) == IF strict THEN "warning" ELSE "error"

\* severity of the two "unknown" issues
UnknownSeverity(strict) == IF strict THEN "error" ELSE "warning"

NoSpec ==
    [type |-> "undefined", hasMin |-> FALSE, min |-> 0,
     hasMax |-> FALSE, max |-> 0, hasValues |-> FALSE, values |-> {}]

Range(f) == {f[x] : x \in DOMAIN f}

\* specific name -> canonical name (the gateways' maps are one-to-one)
buildReverseParamMap(provider) ==
    [specific \in Range(PROVIDER_PARAMS[provider]) |->
        CHOOSE canonical \in DOMAIN PROVIDER_PARAMS[provider] :
            PROVIDER_PARAMS[provider][canonical] = specific]

\* gateway param -> canonical -> sub-provider-specific -> spec
lookupSubProviderSpec(gatewayParamName, gatewayReverseMap, subProvider) ==
    LET canonical == IF gatewayParamName \in DOMAIN gatewayReverseMap
                     THEN gatewayReverseMap[gatewayParamName]
                     ELSE gatewayParamName
    IN  IF canonical \notin DOMAIN PROVIDER_PARAMS[subProvider] THEN NoSpec
        ELSE LET subProviderKey == PROVIDER_PARAMS[subProvider][canonical]
             IN  IF subProviderKey \in DOMAIN PARAM_SPECS[subProvider]
                 THEN PARAM_SPECS[subProvider][subProviderKey]
                 ELSE NoSpec

\* the gateway's names of the params the sub-provider supports
buildSubProviderKnownParams(gateway, subProvider) ==
    {PROVIDER_PARAMS[gateway][canonical] :
        canonical \in DOMAIN PROVIDER_PARAMS[gateway]
                      \cap DOMAIN PROVIDER_PARAMS[subProvider]}

\* the gateway's own tables, whatever the model prefix
EffectiveProvider_GatewayOnly(provider, subProvider) == provider

\* const effectiveProvider = subProvider ?? provider
EffectiveProvider(provider, subProvider) ==
    IF subProvider # undefined THEN subProvider ELSE provider

KnownParams(provider, subProvider) ==
    IF subProvider # undefined
    THEN buildSubProviderKnownParams(provider, subProvider)
    ELSE Range(PROVIDER_PARAMS[provider])

\* check 1: a sampling param on an OpenAI reasoning model
IsReasoningUnsupported(provider, model, key) ==
    /\ canHostOpenAIModels(provider)
    /\ isReasoningModel(model)
    /\ key \in REASONING_MODEL_UNSUPPORTED

\* check 2a without Mistral among the families that take Top-K
IsBedrockTopKUnsupported_NoMistral(provider, model, key) ==
    LET family == detectBedrockModelFamily(model)
    IN  /\ provider = "bedrock"
        /\ key = "topK"
        /\ family # undefined
        /\ family \notin {"anthropic", "cohere"}

\* check 2a: topK on a Bedrock family without Top-K
IsBedrockTopKUnsupported(provider, model, key) ==
    LET family == detectBedrockModelFamily(model)
    IN  /\ provider = "bedrock"
        /\ key = "topK"
        /\ family # undefined
        /\ family \notin {"anthropic", "cohere", "mistral"}

\* check 2b: cache_control on a Bedrock model without prompt caching
IsBedrockCacheUnsupported(provider, model, key) ==
    /\ provider = "bedrock"
    /\ key = "cache_control"
    /\ ~bedrockSupportsCaching(model)

\* check 3: neither a known name nor a name with a spec
IsUnknownParam(provider, subProvider, key) ==
    /\ key \notin KnownParams(provider, subProvider)
    /\ key \notin DOMAIN PARAM_SPECS[EffectiveProvider(provider, subProvider)]

\* check 4: the spec of the key, through the canonical name for a gateway
SpecFor(provider, subProvider, key) ==
    LET specs == PARAM_SPECS[EffectiveProvider(provider, subProvider)]
    IN  IF key \in DOMAIN specs THEN specs[key]
        ELSE IF subProvider # undefined
        THEN lookupSubProviderSpec(key, buildReverseParamMap(provider),
                                   subProvider)
        ELSE NoSpec

\* check 5: temperature together with top_p / topP for an Anthropic model;
\* reported once, on temperature
\* check 5 reporting on whichever of the two params comes first
MutualExclusionIssues_OnFirst(provider, subProvider, model, params, key, value) ==
    LET otherKey == IF key = "temperature"
                    THEN (IF provider = "bedrock" THEN "topP" ELSE "top_p")
                    ELSE "temperature"
    IN  IF /\ \/ EffectiveProvider(provider, subProvider) = "anthropic"
              \/ /\ provider = "bedrock"
                 /\ detectBedrockModelFamily(model) = "anthropic"
           /\ key \in {"temperature", "top_p", "topP"}
           /\ HasKey(params, otherKey)
           /\ Get(params, key) < Get(params, otherKey)
        THEN <<Issue(key, value, <<"Cannot specify both", key, otherKey>>,
                     "error")>>
        ELSE <<>>

MutualExclusionIssues(provider, subProvider, model, params, key, value) ==
    LET otherKey == IF key = "temperature"
                    THEN (IF provider = "bedrock" THEN "topP" ELSE "top_p")
                    ELSE "temperature"
    IN  IF /\ \/ EffectiveProvider(provider, subProvider) = "anthropic"
              \/ /\ provider = "bedrock"
                 /\ detectBedrockModelFamily(model) = "anthropic"
           /\ key \in {"temperature", "top_p", "topP"}
           /\ key = "temperature"
           /\ HasKey(params, otherKey)
        THEN <<Issue(key, value, <<"Cannot specify both", key, otherKey>>,
                     "error")>>
        ELSE <<>>

\* check 6, a number spec
NumberIssues(spec, key, value) ==
    LET num == Number(value)
    IN  IF isNaN(num)
        THEN <<Issue(key, value, <<"should be a number", key, value>>, "error")>>
        ELSE (IF spec.hasMin /\ NumLess(num, spec.min)
              THEN <<Issue(key, value,
                           <<"must be >=", key, ToString(spec.min)>>, "error")>>
              ELSE <<>>)
          \o (IF spec.hasMax /\ NumGreater(num, spec.max)
              THEN <<Issue(key, value,
                           <<"must be <=", key, ToString(spec.max)>>, "error")>>
              ELSE <<>>)

\* check 6 with the cache switch's yes taken as a boolean
BooleanIssues_AcceptsYes(spec, key, value) ==
    IF value \notin {"true", "false", "0", "1", "yes"}
    THEN <<Issue(key, value, <<"should be a boolean", key, value>>, "error")>>
    ELSE <<>>

\* check 6, a boolean spec
BooleanIssues(spec, key, value) ==
    IF value \notin {"true", "false", "0", "1"}
    THEN <<Issue(key, value, <<"should be a boolean", key, value>>, "error")>>
    ELSE <<>>

\* check 6, a string spec with a value list
EnumIssues(spec, key, value) ==
    IF spec.hasValues /\ value \notin spec.values
    THEN <<Issue(key, value, <<"must be one of", key, value>>, "error")>>
    ELSE <<>>

TypeIssues(spec, key, value) ==
    CASE spec.type = "number"  -> NumberIssues(spec, key, value)
      [] spec.type = "boolean" -> BooleanIssues(spec, key, value)
      [] spec.type = "string"  -> EnumIssues(spec, key, value)
      [] OTHER -> <<>>

\* the reasoning-model check without its continue
ValidateEntry_NoContinue(provider, subProvider, model, params, key, value, strict) ==
    LET spec == SpecFor(provider, subProvider, key)
    IN  (IF IsReasoningUnsupported(provider, model, key)
         THEN <<Issue(key, value,
                      <<"is not supported by OpenAI reasoning model", key, model>>,
                      "error")>>
         ELSE <<>>)
        \o (IF IsBedrockTopKUnsupported(provider, model, key)
            THEN <<Issue(key, value,
                         <<"topK is not supported on Bedrock by",
                           detectBedrockModelFamily(model)>>, "error")>>
            ELSE IF IsBedrockCacheUnsupported(provider, model, key)
            THEN <<Issue(key, value,
                         <<"Prompt caching is only supported",
                           detectBedrockModelFamily(model)>>, "error")>>
            ELSE IF IsUnknownParam(provider, subProvider, key)
            THEN <<Issue(key, value,
                         <<"Unknown param", key,
                           EffectiveProvider(provider, subProvider)>>,
                         UnknownSeverity(strict))>>
            ELSE IF spec.type = "undefined" THEN <<>>
            ELSE MutualExclusionIssues(provider, subProvider, model,
                                       params, key, value)
                 \o TypeIssues(spec, key, value))

\* One turn of the loop over Object.entries(config.params): the issues of one
\* entry of the normalized params
ValidateEntry(provider, subProvider, model, params, key, value, strict) ==
    IF IsReasoningUnsupported(provider, model, key)
    THEN <<Issue(key, value,
                 <<"is not supported by OpenAI reasoning model", key, model>>,
                 "error")>>
    ELSE IF IsBedrockTopKUnsupported(provider, model, key)
    THEN <<Issue(key, value,
                 <<"topK is not supported on Bedrock by",
                   detectBedrockModelFamily(model)>>, "error")>>
    ELSE IF IsBedrockCacheUnsupported(provider, model, key)
    THEN <<Issue(key, value,
                 <<"Prompt caching is only supported",
                   detectBedrockModelFamily(model)>>, "error")>>
    ELSE IF IsUnknownParam(provider, subProvider, key)
    THEN <<Issue(key, value,
                 <<"Unknown param", key,
                   EffectiveProvider(provider, subProvider)>>,
                 UnknownSeverity(strict))>>
    ELSE LET spec == SpecFor(provider, subProvider, key)
         IN  IF spec.type = "undefined" THEN <<>>
             ELSE MutualExclusionIssues(provider, subProvider, model,
                                        params, key, value)
                  \o TypeIssues(spec, key, value)

RECURSIVE ValidateLoop(_, _, _, _, _, _)
ValidateLoop(provider, subProvider, model, params, i, strict) ==
    IF i > Len(params) THEN <<>>
    ELSE ValidateEntry(provider, subProvider, model, params,
                       params[i].k, params[i].v, strict)
         \o ValidateLoop(provider, subProvider, model, params, i + 1, strict)

\* validate returning after the first issue
validate_FirstIssueOnly(parsed, strict) ==
    LET n   == normalize(parsed, FALSE)
        all == ValidateLoop(n.provider, n.subProvider, n.config.model,
                            n.config.params, 1, strict)
    IN  IF n.provider = undefined
        THEN <<Issue("host", n.config.host,
                     <<"Unknown provider for host", n.config.host>>,
                     UnknownSeverity(strict))>>
        ELSE IF all = <<>> THEN <<>>
        ELSE <<Head(all)>>

\* validate(connectionString, options) from the record parse() returns
validate(parsed, strict) ==
    LET n == normalize(parsed, FALSE)
    IN  IF n.provider = undefined
        THEN <<Issue("host", n.config.host,
                     <<"Unknown provider for host", n.config.host>>,
                     UnknownSeverity(strict))>>
        ELSE ValidateLoop(n.provider, n.subProvider, n.config.model,
                          n.config.params, 1, strict)

-----------------------------------------------------------------------------
(* The inputs: the records parse() hands over                               *)

\* the most entries a params object of several entries holds
MaxParams == 2

\* hosts of the direct vendors, and one that matches no provider
DirectHosts ==
    {"api.openai.com", "api.anthropic.com",
     "generativelanguage.googleapis.com", "api.mistral.ai", "api.cohere.com",
     "custom-api.com"}

GatewayHosts == {"openrouter.ai", "gateway.ai.vercel.sh"}

BedrockHosts == {"bedrock-runtime.us-east-1.amazonaws.com"}

\* a plain model, a reasoning model, a model with a vendor prefix
DirectModels == {"gpt-4o", "o3", "anthropic/claude-sonnet-4-5"}

\* every direct vendor as a prefix, an unknown prefix and no prefix, with
\* reasoning-style names (o1, o3) behind an OpenAI and a non-OpenAI prefix
GatewayModels ==
    {"openai/o3", "openai/gpt-4o", "anthropic/claude-sonnet-4-5",
     "anthropic/o1-preview", "google/gemini-2.5-pro", "mistral/mistral-large",
     "cohere/command-r", "qwen/qwen2.5-pro", "o3", "gpt-4o"}

\* Bedrock ids: families with and without caching, a routing prefix, no family
BedrockModels ==
    {"anthropic.claude-v1", "us.anthropic.claude-v1", "meta.llama3-70b",
     "amazon.nova-lite-v1", "amazon.titan-text", "mistral.mistral-large",
     "cohere.command-r-v1", "ai21.jamba-1-5", "claude-v1"}

HostModels ==
    (DirectHosts \X DirectModels)
    \cup (GatewayHosts \X GatewayModels)
    \cup (BedrockHosts \X BedrockModels)

CanonicalKeys ==
    {"temperature", "max_tokens", "top_p", "top_k", "frequency_penalty",
     "presence_penalty", "stop", "n", "seed", "stream", "effort", "cache",
     "cache_ttl", "responseMimeType", "responseSchema", "safe_prompt",
     "min_tokens"}

\* the canonical names, two native-only names and an unknown name
BaseKeys == CanonicalKeys \cup {"p", "k", "made_up_param"}

\* and every alias
AllKeys == DOMAIN ALIASES \cup BaseKeys

\* numbers in and out of every range, the empty string, words, booleans,
\* durations, enum members
AllValues ==
    {"", "0", "1", "0.7", "1.5", "3", "-0.5", "-3", "600", "hot",
     "true", "false", "yes", "5m", "15m", "1h", "ephemeral",
     "high", "max", "none"}

\* the values every key is tried with
CoreValues == {"0.7", "hot", "true", "5m"}

\* the keys and values of the objects with several entries
SomeKeys ==
    {"temperature", "temp", "top_p", "topP", "max", "max_tokens", "cache"}

SomeValues == {"0.7", "5m"}

Entries(keys, values) == {[k |-> key, v |-> value] : key \in keys, value \in values}

\* the sequences of exactly n entries with pairwise distinct keys
RECURSIVE DistinctSeqs(_, _)
DistinctSeqs(entries, n) ==
    IF n = 0 THEN {<<>>}
    ELSE {s \in {Append(t, e) : t \in DistinctSeqs(entries, n - 1), e \in entries} :
             \A i \in 1..(n - 1) : s[i].k # s[n].k}

ParamObjects ==
    {<<>>}
    \cup DistinctSeqs(Entries(AllKeys, CoreValues), 1)
    \cup DistinctSeqs(Entries(BaseKeys, AllValues), 1)
    \cup UNION {DistinctSeqs(Entries(SomeKeys, SomeValues), n) : n \in 2..MaxParams}

Configs ==
    {[host |-> hm[1], model |-> hm[2], params |-> ps] :
        hm \in HostModels, ps \in ParamObjects}

-----------------------------------------------------------------------------
(* The state machine: a record is parsed, then one entry point runs on it   *)

NoResult ==
    [config |-> [host |-> "", model |-> "", params |-> <<>>],
     provider |-> undefined, subProvider |-> undefined, changes |-> <<>>]

\* no call has been made before the last one
NoPrev ==
    [step |-> "none", cfg |-> [host |-> "", model |-> "", params |-> <<>>],
     op |-> "none", opt |-> FALSE, norm |-> NoResult, issues |-> <<>>]

\* what prev keeps of the call that has run, followed by the step named
Kept(step) ==
    [step |-> step, cfg |-> cfg, op |-> op, opt |-> opt, norm |-> norm,
     issues |-> issues]

Fresh ==
    /\ op = "none"
    /\ opt = FALSE
    /\ norm = NoResult
    /\ issues = <<>>
    /\ prev = NoPrev

Init == cfg \in Configs /\ Fresh

\* normalize(config, {verbose})
Normalize(verbose) ==
    /\ op = "none"
    /\ op' = "normalize"
    /\ opt' = verbose
    /\ norm' = normalize(cfg, verbose)
    /\ UNCHANGED <<cfg, issues, prev>>

\* validate(connectionString, {strict}); norm keeps the result of the
\* normalize call validate makes
Validate(strict) ==
    /\ op = "none"
    /\ op' = "validate"
    /\ opt' = strict
    /\ norm' = normalize(cfg, FALSE)
    /\ issues' = validate(cfg, strict)
    /\ UNCHANGED <<cfg, prev>>

Next ==
    \/ \E verbose \in BOOLEAN : Normalize(verbose)
    \/ \E strict \in BOOLEAN : Validate(strict)

Spec == Init /\ [][Next]_vars

\* The caller turns to a second call on the same record.
CallAgain ==
    /\ op # "none"
    /\ prev = NoPrev
    /\ prev' = Kept("again")
    /\ op' = "none" /\ opt' = FALSE /\ norm' = NoResult /\ issues' = <<>>
    /\ UNCHANGED cfg

\* The caller turns to a second call, on the record normalize returned.
CallOnResult ==
    /\ op = "normalize"
    /\ prev = NoPrev
    /\ prev' = Kept("result")
    /\ cfg' = norm.config
    /\ op' = "none" /\ opt' = FALSE /\ norm' = NoResult /\ issues' = <<>>

\* the orders in which a connection string can list the entries of params
Reorderings(params) ==
    {[i \in 1..Len(params) |-> params[pi[i]]] :
        pi \in Permutations(1..Len(params))}

\* The caller turns to a second call, on a connection string that lists the
\* same params in another order.
CallReordered ==
    /\ op = "validate"
    /\ prev = NoPrev
    /\ prev' = Kept("reordered")
    /\ \E ps \in Reorderings(cfg.params) \ {cfg.params} :
          cfg' = [cfg EXCEPT !.params = ps]
    /\ op' = "none" /\ opt' = FALSE /\ norm' = NoResult /\ issues' = <<>>

\* the records on which two calls are compared
PairHostModels ==
    {<<"api.openai.com", "gpt-4o">>, <<"api.openai.com", "o3">>,
     <<"api.anthropic.com", "gpt-4o">>,
     <<"generativelanguage.googleapis.com", "gpt-4o">>,
     <<"api.mistral.ai", "gpt-4o">>, <<"api.cohere.com", "gpt-4o">>,
     <<"custom-api.com", "gpt-4o">>,
     <<"openrouter.ai", "openai/o3">>,
     <<"openrouter.ai", "anthropic/claude-sonnet-4-5">>,
     <<"openrouter.ai", "anthropic/o1-preview">>,
     <<"openrouter.ai", "qwen/qwen2.5-pro">>,
     <<"gateway.ai.vercel.sh", "google/gemini-2.5-pro">>,
     <<"gateway.ai.vercel.sh", "mistral/mistral-large">>,
     <<"bedrock-runtime.us-east-1.amazonaws.com", "anthropic.claude-v1">>,
     <<"bedrock-runtime.us-east-1.amazonaws.com", "meta.llama3-70b">>,
     <<"bedrock-runtime.us-east-1.amazonaws.com", "amazon.nova-lite-v1">>}

PairKeys == {"temperature", "temp", "top_p", "max_tokens", "cache", "cache_ttl"}

PairParamObjects ==
    DistinctSeqs(Entries(AllKeys, CoreValues), 1)
    \cup UNION {DistinctSeqs(Entries(PairKeys, SomeValues), n) : n \in 2..MaxParams}

PairConfigs ==
    {[host |-> hm[1], model |-> hm[2], params |-> ps] :
        hm \in PairHostModels, ps \in PairParamObjects}

InitPair == cfg \in PairConfigs /\ Fresh

NextPair ==
    \/ Next
    \/ CallAgain
    \/ CallOnResult
    \/ CallReordered

\* the default host of every provider
PROVIDER_META ==
    ("openai" :> "api.openai.com") @@ ("anthropic" :> "api.anthropic.com")
 @@ ("google" :> "generativelanguage.googleapis.com")
 @@ ("mistral" :> "api.mistral.ai") @@ ("cohere" :> "api.cohere.com")
 @@ ("bedrock" :> "bedrock-runtime.us-east-1.amazonaws.com")
 @@ ("openrouter" :> "openrouter.ai") @@ ("vercel" :> "gateway.ai.vercel.app")

\* the words detectProvider looks for in a host, and one it does not
HostWords ==
    {"openrouter", "gateway.ai.vercel", "amazonaws", "bedrock", "openai",
     "anthropic", "claude", "googleapis", "google", "mistral", "cohere",
     "example"}

\* hosts with two of the words in either order, and the default hosts
DetectHosts ==
    {"api." \o a \o "." \o b \o ".com" : a, b \in HostWords}
    \cup {PROVIDER_META[id] : id \in DOMAIN PROVIDER_META}
    \cup DirectHosts \cup GatewayHosts \cup BedrockHosts

DetectConfigs ==
    {[host |-> h, model |-> "gpt-4o", params |-> ps] :
        h \in DetectHosts,
        ps \in {<<>>, <<[k |-> "temp", v |-> "0.7"]>>}}

InitDetect == cfg \in DetectConfigs /\ Fresh

\* an entry point runs on a record with one of the hosts above
SpecDetect == InitDetect /\ [][Next]_vars

\* the vendor names a model id can carry, and one that is no provider
VendorWords ==
    {"openai", "anthropic", "google", "mistral", "cohere", "openrouter",
     "vercel", "bedrock", "qwen"}

\* gateway model ids: a vendor before the slash, inside a longer first
\* segment, alone, after the slash, in the second segment
GatewayIds ==
    UNION {{w \o "/gpt-4o", w \o "/o3", "x" \o w \o "/gpt-4o", w, "/" \o w,
            w \o "/", "qwen/" \o w \o "/o3"} : w \in VendorWords}

\* Bedrock model ids: a family with or without a routing token before it
BedrockIds ==
    {t \o f \o r :
        t \in {"", "us.", "eu.", "apac.", "global.", "ap.", "us.us."},
        f \in {"anthropic", "meta", "amazon", "mistral", "cohere", "ai21",
               "deepseek"},
        r \in {"", ".claude-v1", ".nova-lite-v1"}}
    \cup {"us", "claude-v1"}

\* reasoning-style names, bare and behind one or two slashes
ReasoningIds ==
    {"o3", "o4-mini", "o1-pro", "openai/o3", "openai/o1-mini", "gpt-5.2",
     "anthropic/claude-sonnet-4-5", "o2", "o", "oo3", "go3", "O3",
     "openai/o3/high", "qwen/models/o3", "o3/gpt-4o", ""}

ModelIds == GatewayIds \cup BedrockIds \cup ReasoningIds

ModelConfigs ==
    {[host |-> h, model |-> m, params |-> ps] :
        h \in {"openrouter.ai", "gateway.ai.vercel.sh", "api.openai.com",
               "bedrock-runtime.us-east-1.amazonaws.com"},
        m \in ModelIds,
        ps \in {<<>>} \cup
               DistinctSeqs(Entries({"temp", "max", "cache", "topk"},
                                    {"0.7", "true"}), 1)}

InitModels == cfg \in ModelConfigs /\ Fresh

\* an entry point runs on a record with one of the model ids above
SpecModels == InitModels /\ [][Next]_vars

\* records with the optional label and API key of the connection string
LabelledHostModels ==
    {<<"api.openai.com", "o3">>, <<"api.anthropic.com", "gpt-4o">>,
     <<"custom-api.com", "gpt-4o">>, <<"openrouter.ai", "openai/o3">>,
     <<"bedrock-runtime.us-east-1.amazonaws.com", "meta.llama3-70b">>,
     <<"bedrock-runtime.us-east-1.amazonaws.com", "amazon.nova-lite-v1">>}

LabelledConfigs ==
    {[host |-> hm[1], model |-> hm[2], params |-> ps, label |-> l, apiKey |-> a] :
        hm \in LabelledHostModels,
        ps \in {<<>>}
               \cup DistinctSeqs(Entries(PairKeys, AllValues), 1)
               \cup UNION {DistinctSeqs(Entries(PairKeys, SomeValues), n) :
                              n \in 2..MaxParams},
        l \in {undefined, "prod"},
        a \in {undefined, "sk-123"}}

InitLabelled == cfg \in LabelledConfigs /\ Fresh

\* an entry point runs on a record that carries a label and an API key
SpecLabelled == InitLabelled /\ [][Next]_vars

\* a record is parsed, an entry point runs on it, then the caller makes one
\* more call
SpecPair == InitPair /\ [][NextPair]_vars

-----------------------------------------------------------------------------
(* What the claims speak about                                              *)

\* the provider of the request, and the params the entry point produced
Provider == detectProvider(cfg.host)
OutParams == norm.config.params

\* cache and its aliases; max_tokens and its aliases
CacheKeys == {"cache"} \cup {s \in DOMAIN ALIASES : ALIASES[s] = "cache"}
MaxTokensKeys == {"max_tokens"} \cup {s \in DOMAIN ALIASES : ALIASES[s] = "max_tokens"}

\* the provider / model takes an explicit cache param
CacheCapable ==
    \/ Provider = "anthropic"
    \/ Provider = "bedrock" /\ bedrockSupportsCaching(cfg.model)

\* the entries of a params object as a set
EntrySet(params) == {params[i] : i \in 1..Len(params)}

\* the entries of a params object whose key is not in keys, in order
RECURSIVE Without(_, _)
Without(params, keys) ==
    IF params = <<>> THEN <<>>
    ELSE IF Head(params).k \in keys THEN Without(Tail(params), keys)
    ELSE <<Head(params)>> \o Without(Tail(params), keys)

\* the issues validate returned for one param
RECURSIVE IssuesOf(_, _)
IssuesOf(list, param) ==
    IF list = <<>> THEN <<>>
    ELSE IF Head(list).param = param
    THEN <<Head(list)>> \o IssuesOf(Tail(list), param)
    ELSE IssuesOf(Tail(list), param)

\* the issues of a list whose message starts with one of the texts
RECURSIVE IssuesSaying(_, _)
IssuesSaying(list, texts) ==
    IF list = <<>> THEN <<>>
    ELSE IF Head(list).message[1] \in texts
    THEN <<Head(list)>> \o IssuesSaying(Tail(list), texts)
    ELSE IssuesSaying(Tail(list), texts)

\* the sub-provider the model prefix names, for a request through a gateway
PrefixProvider ==
    IF isGatewayProvider(Provider) THEN detectGatewaySubProvider(cfg.model)
    ELSE undefined

\* the vendor whose rules apply: the prefix's vendor behind a gateway
Addressed == IF PrefixProvider # undefined THEN PrefixProvider ELSE Provider

\* the entry (key) passes checks 1 to 4 and has a spec to be checked against
ReachesTypeCheck(key) ==
    /\ ~IsReasoningUnsupported(Provider, cfg.model, key)
    /\ ~IsBedrockTopKUnsupported(Provider, cfg.model, key)
    /\ ~IsBedrockCacheUnsupported(Provider, cfg.model, key)
    /\ ~IsUnknownParam(Provider, norm.subProvider, key)
    /\ SpecFor(Provider, norm.subProvider, key).type # "undefined"

TypeTexts == {"should be a number", "must be >=", "must be <="}

-----------------------------------------------------------------------------
(* C1  Alias confluence: for every alias s -> c, every host, model and      *)
(* value v, normalize on params {s: v} returns the same output params as    *)
(* normalize on params {c: v}.                                              *)
C1_AliasConfluence ==
    (/\ op = "normalize"
     /\ Len(cfg.params) = 1
     /\ cfg.params[1].k \in DOMAIN ALIASES)
    => OutParams =
         normalize([cfg EXCEPT !.params =
                       <<[k |-> ALIASES[cfg.params[1].k],
                          v |-> cfg.params[1].v]>>], opt).config.params

\* maxTokens on a Google host comes out as maxOutputTokens, as max_tokens does
C1_Witness ==
    /\ op = "normalize"
    /\ Provider = "google"
    /\ cfg.params = <<[k |-> "maxTokens", v |-> "0.7"]>>
    /\ OutParams = <<[k |-> "maxOutputTokens", v |-> "0.7"]>>

(* C2  Cache duration: for a cache-capable provider / model and a value v   *)
(* matching ^\d+[mh]$, normalize of {cache: v} (or an alias of cache)       *)
(* yields exactly cache_control = "ephemeral" and cache_ttl = v, v carried  *)
(* literally, also outside the allowed TTL set (15m).                       *)
C2_CacheDuration ==
    (/\ op = "normalize"
     /\ CacheCapable
     /\ Len(cfg.params) = 1
     /\ cfg.params[1].k \in CacheKeys
     /\ DURATION_RE(cfg.params[1].v))
    => /\ Len(OutParams) = 2
       /\ EntrySet(OutParams) =
            {[k |-> "cache_control", v |-> "ephemeral"],
             [k |-> "cache_ttl", v |-> cfg.params[1].v]}

\* cache=15m for Claude on Bedrock
C2_Witness ==
    /\ op = "normalize"
    /\ Provider = "bedrock"
    /\ cfg.params = <<[k |-> "cache", v |-> "15m"]>>
    /\ OutParams = <<[k |-> "cache_control", v |-> "ephemeral"],
                     [k |-> "cache_ttl", v |-> "15m"]>>

(* C3  Drop-on-unsupported: when a provider is detected and the provider /  *)
(* model has no explicit caching, normalize emits nothing for a cache       *)
(* parameter (cache or an alias) whatever its value: the output is that of  *)
(* the record without its cache parameters, and params consisting only of   *)
(* cache parameters normalize to the empty set.                             *)
C3_DropOnUnsupported ==
    (/\ op = "normalize"
     /\ Provider # undefined
     /\ ~CacheCapable)
    => /\ OutParams =
            normalize([cfg EXCEPT !.params = Without(cfg.params, CacheKeys)],
                      opt).config.params
       /\ Keys(cfg.params) \subseteq CacheKeys => OutParams = <<>>
       /\ Keys(OutParams) \cap (CacheKeys \cup {"cache_ttl"})
             \subseteq Keys(cfg.params) \ CacheKeys

\* cache_control=true is dropped for a Llama model on Bedrock
C3_Witness ==
    /\ op = "normalize"
    /\ Provider = "bedrock"
    /\ cfg.model = "meta.llama3-70b"
    /\ cfg.params = <<[k |-> "cache_control", v |-> "true"]>>
    /\ OutParams = <<>>

(* C7  Reasoning-model max-tokens rename: for a host detected as openai,    *)
(* openrouter or vercel and a reasoning model, normalize emits a max-tokens *)
(* parameter (max_tokens or an alias) under the key max_completion_tokens    *)
(* with its value unchanged (the last one, when several aliases are given)  *)
(* and never under max_tokens; for every other provider or a non-reasoning  *)
(* model the key max_completion_tokens is never emitted.                    *)
C7_ReasoningMaxTokensRename ==
    op = "normalize" =>
       LET renames == /\ Provider \in {"openai", "openrouter", "vercel"}
                      /\ isReasoningModel(cfg.model)
           given   == {i \in 1..Len(cfg.params) : cfg.params[i].k \in MaxTokensKeys}
           last    == CHOOSE i \in given : \A j \in given : j <= i
       IN  /\ (renames /\ given # {}) =>
                 /\ HasKey(OutParams, "max_completion_tokens")
                 /\ ValueOf(OutParams, "max_completion_tokens") = cfg.params[last].v
                 /\ Keys(OutParams) \cap MaxTokensKeys = {"max_completion_tokens"}
           /\ ~renames => ~HasKey(OutParams, "max_completion_tokens")

\* max=0.7 for openai/o3 through OpenRouter
C7_Witness ==
    /\ op = "normalize"
    /\ Provider = "openrouter"
    /\ cfg.model = "openai/o3"
    /\ cfg.params = <<[k |-> "max", v |-> "0.7"]>>
    /\ OutParams = <<[k |-> "max_completion_tokens", v |-> "0.7"]>>

(* C10  Unknown-provider short-circuit: when the host matches no provider,  *)
(* validate returns exactly one issue, with param "host" and value the      *)
(* host, severity warning in non-strict mode and error in strict mode, and  *)
(* no issue for any parameter whatever the parameter values are.            *)
C10_UnknownProviderShortCircuit ==
    (op = "validate" /\ Provider = undefined)
    => /\ Len(issues) = 1
       /\ issues[1].param = "host"
       /\ issues[1].value = cfg.host
       /\ issues[1].message[1] = "Unknown provider for host"
       /\ issues[1].severity = (IF opt THEN "error" ELSE "warning")

\* strict validation of temperature=hot on an unknown host
C10_Witness ==
    /\ op = "validate"
    /\ opt = TRUE
    /\ Provider = undefined
    /\ cfg.params = <<[k |-> "temperature", v |-> "hot"]>>
    /\ Len(issues) = 1
    /\ issues[1].severity = "error"

(* C9  Membership checks: for a parameter with a boolean spec validate     *)
(* returns an error iff the value is not one of the strings true, false,    *)
(* 0, 1 (so yes is rejected); for a string spec with a values list iff the  *)
(* value is not in the list; a string spec without a list accepts all.      *)
C9_MembershipChecks ==
    (op = "validate" /\ Provider # undefined) =>
       \A i \in 1..Len(OutParams) :
          LET key   == OutParams[i].k
              value == OutParams[i].v
              spec  == SpecFor(Provider, norm.subProvider, key)
              found == IssuesOf(issues, key)
          IN  ReachesTypeCheck(key) =>
                /\ spec.type = "boolean" =>
                      /\ found # <<>> <=> value \notin {"true", "false", "0", "1"}
                      /\ \A j \in 1..Len(found) :
                            /\ found[j].message[1] = "should be a boolean"
                            /\ found[j].severity = "error"
                /\ (spec.type = "string" /\ spec.hasValues) =>
                      /\ found # <<>> <=> value \notin spec.values
                      /\ \A j \in 1..Len(found) :
                            /\ found[j].message[1] = "must be one of"
                            /\ found[j].severity = "error"
                /\ (spec.type = "string" /\ ~spec.hasValues) => found = <<>>

\* stream=yes is rejected for OpenAI
C9_Witness ==
    /\ op = "validate"
    /\ Provider = "openai"
    /\ OutParams = <<[k |-> "stream", v |-> "yes"]>>
    /\ Len(issues) = 1
    /\ issues[1].message[1] = "should be a boolean"

C6_ReasoningUnsupported ==
    (op = "validate" /\ Provider # undefined) =>
       \A i \in 1..Len(OutParams) :
          LET key      == OutParams[i].k
              found    == IssuesOf(issues, key)
              said     == IssuesSaying(found,
                             {"is not supported by OpenAI reasoning model"})
              expected == /\ canHostOpenAIModels(Addressed)
                          /\ isReasoningModel(cfg.model)
                          /\ key \in REASONING_MODEL_UNSUPPORTED
          IN  /\ said # <<>> <=> expected
              /\ said # <<>> =>
                    /\ Len(found) = 1
                    /\ found[1].severity = "error"

(* C4  Anthropic mutual exclusion: when the rules in force are Anthropic's  *)
(* (direct Anthropic, Bedrock with an Anthropic model, a gateway whose      *)
(* sub-provider is anthropic) and both temperature and the nucleus          *)
(* parameter (top_p, topP on Bedrock) are present after normalization,      *)
(* validate returns exactly one "Cannot specify both" error, attached to    *)
(* temperature; when at most one of the two is present it returns none.     *)
C4_AnthropicMutualExclusion ==
    op = "validate" =>
       LET anthropic ==
              \/ Provider = "anthropic"
              \/ /\ Provider = "bedrock"
                 /\ detectBedrockModelFamily(cfg.model) = "anthropic"
              \/ PrefixProvider = "anthropic"
           nucleus == IF Provider = "bedrock" THEN "topP" ELSE "top_p"
           both    == /\ HasKey(OutParams, "temperature")
                      /\ HasKey(OutParams, nucleus)
           said    == IssuesSaying(issues, {"Cannot specify both"})
       IN  anthropic =>
              /\ both => /\ Len(said) = 1
                         /\ said[1].param = "temperature"
                         /\ said[1].severity = "error"
              /\ ~both => said = <<>>

\* the value, read as text, is a decimal numeral
IsNumericText(value) ==
    /\ \E i \in 1..Len(value) : CharAt(value, i) \in Digits
    /\ ~isNaN(Number(value))

(* C8  Numeric range check: for a parameter that reaches the type check     *)
(* with a numeric spec, validate returns an error iff the value is not a    *)
(* number, or is a number below the spec's min, or above its max; a value   *)
(* that is not a number yields only the "should be a number" error.         *)
C8_NumericRangeCheck ==
    (op = "validate" /\ Provider # undefined) =>
       \A i \in 1..Len(OutParams) :
          LET key     == OutParams[i].k
              value   == OutParams[i].v
              spec    == SpecFor(Provider, norm.subProvider, key)
              found   == IssuesSaying(IssuesOf(issues, key), TypeTexts)
              numeric == IsNumericText(value)
              below   == numeric /\ spec.hasMin
                            /\ NumLess(Number(value), spec.min)
              above   == numeric /\ spec.hasMax
                            /\ NumGreater(Number(value), spec.max)
          IN  (ReachesTypeCheck(key) /\ spec.type = "number") =>
                 /\ found # <<>> <=> (~numeric \/ below \/ above)
                 /\ \A j \in 1..Len(found) : found[j].severity = "error"
                 /\ ~numeric =>
                       /\ Len(found) = 1
                       /\ found[1].message[1] = "should be a number"

\* the substrings by which a host names a provider
Signatures ==
    {"openrouter", "gateway.ai.vercel", "amazonaws", "bedrock", "openai",
     "anthropic", "claude", "googleapis", "google", "mistral", "cohere"}

\* params with every alias key replaced by its canonical name
RECURSIVE Canonicalized(_)
Canonicalized(params) ==
    IF params = <<>> THEN <<>>
    ELSE LET n    == Len(params)
             last == params[n]
             name == IF last.k \in DOMAIN ALIASES THEN ALIASES[last.k]
                     ELSE last.k
         IN  Put(Canonicalized(SubSeq(params, 1, n - 1)), name, last.v)

(* C11  Unknown host normalization: when the host matches no provider,      *)
(* normalize returns provider none and the input params with each alias key *)
(* replaced by its canonical name: nothing is dropped (cache is kept), no   *)
(* provider-specific or reasoning-model rename is made, values are kept.    *)
C11_UnknownHostNormalization ==
    (op = "normalize" /\ \A sig \in Signatures : ~Includes(cfg.host, sig)) =>
       /\ norm.provider = undefined
       /\ OutParams = Canonicalized(cfg.params)
       /\ \A i \in 1..Len(cfg.params) :
             \E j \in 1..Len(OutParams) :
                /\ OutParams[j].k \in {cfg.params[i].k} \cup
                      {ALIASES[a] : a \in {cfg.params[i].k} \cap DOMAIN ALIASES}
                /\ (Len(OutParams) = Len(cfg.params)) =>
                      (j = i /\ OutParams[j].v = cfg.params[i].v)

\* max=0.7 and cache=5m for a reasoning-style model on an unknown host
C11_Witness ==
    /\ op = "normalize"
    /\ cfg.host = "custom-api.com"
    /\ cfg.model = "o3"
    /\ cfg.params = <<[k |-> "max", v |-> "0.7"], [k |-> "cache", v |-> "5m"]>>
    /\ norm.provider = undefined
    /\ OutParams = <<[k |-> "max_tokens", v |-> "0.7"], [k |-> "cache", v |-> "5m"]>>

\* the second call repeats the first on the same record with the other option
Repeated(entry) == op = entry /\ prev.op = entry /\ prev.step = "again"
                      /\ prev.opt # opt

(* C12  Strict-mode monotonicity: validate with strict returns a list of    *)
(* the same length as without, with the same param, value and message at    *)
(* every position; the severity at a position is the same in both or is     *)
(* warning without strict and error with it, and it differs only for        *)
(* unknown-provider and unknown-param issues.                               *)
C12_StrictMonotonicity ==
    Repeated("validate") =>
       LET lax    == IF opt THEN prev.issues ELSE issues
           strict == IF opt THEN issues ELSE prev.issues
       IN  /\ Len(strict) = Len(lax)
           /\ \A i \in 1..Len(lax) :
                 /\ strict[i].param = lax[i].param
                 /\ strict[i].value = lax[i].value
                 /\ strict[i].message = lax[i].message
                 /\ \/ strict[i].severity = lax[i].severity
                    \/ /\ lax[i].severity = "warning"
                       /\ strict[i].severity = "error"
                       /\ lax[i].message[1] \in
                             {"Unknown provider for host", "Unknown param"}

\* an unknown param of OpenAI: a warning, then an error under strict
C12_Witness ==
    /\ Repeated("validate")
    /\ opt
    /\ cfg.host = "api.openai.com"
    /\ cfg.params = <<[k |-> "made_up_param", v |-> "0.7"]>>
    /\ Len(prev.issues) = 1 /\ prev.issues[1].severity = "warning"
    /\ Len(issues) = 1 /\ issues[1].severity = "error"
    /\ issues[1].message = prev.issues[1].message

\* the second call validates the same params listed in another order, with
\* the same option
Reordered == op = "validate" /\ prev.op = "validate" /\ prev.step = "reordered"
                /\ prev.opt = opt

(* C13  Order independence of validation: for every host, model and         *)
(* key-to-value param map, the set of issues validate returns, and so       *)
(* their number, is the same for every order of the map's entries in the    *)
(* connection string.                                                       *)
C13_OrderIndependence ==
    Reordered =>
       /\ EntrySet(issues) = EntrySet(prev.issues)
       /\ Len(issues) = Len(prev.issues)

\* the keys normalize writes for one entry of the record's params
WrittenKeys(entry) ==
    Keys(normalize([cfg EXCEPT !.params = <<entry>>], FALSE).config.params)

\* no two entries of the record's params write the same output key
WritesDistinctKeys ==
    \A i, j \in 1..Len(cfg.params) :
       i # j => WrittenKeys(cfg.params[i]) \cap WrittenKeys(cfg.params[j]) = {}

(* C13 as amended: for every host, model and param map no two entries of    *)
(* which are written to the same output key by normalize (two spellings of  *)
(* one parameter, or a cache duration next to cache_ttl), the set of issues *)
(* validate returns, and so their number, is the same for every order of    *)
(* the entries in the connection string.                                    *)
C13_OrderIndependenceDistinctKeys ==
    (Reordered /\ WritesDistinctKeys) =>
       /\ EntrySet(issues) = EntrySet(prev.issues)
       /\ Len(issues) = Len(prev.issues)

\* temperature and top_p for Anthropic, in both orders: one error each time,
\* on temperature
C13_Witness ==
    /\ Reordered
    /\ WritesDistinctKeys
    /\ cfg.host = "api.anthropic.com"
    /\ prev.cfg.params = <<[k |-> "top_p", v |-> "0.7"],
                           [k |-> "temperature", v |-> "0.7"]>>
    /\ cfg.params = <<[k |-> "temperature", v |-> "0.7"],
                      [k |-> "top_p", v |-> "0.7"]>>
    /\ Len(issues) = 1
    /\ issues[1].param = "temperature"
    /\ issues = prev.issues

\* the second call normalizes the record the first normalize returned
Renormalized == op = "normalize" /\ prev.op = "normalize" /\ prev.step = "result"

(* C14  Idempotence of normalization: normalize applied to the record that  *)
(* normalize(r) returned (same host and model) returns output params equal  *)
(* to those of normalize(r); a record already in provider-native form is    *)
(* returned with an identical param set.                                    *)
C14_Idempotence ==
    Renormalized =>
       /\ cfg = prev.norm.config
       /\ OutParams = prev.norm.config.params
       /\ EntrySet(OutParams) = EntrySet(cfg.params)

\* max=0.7 for o3 on OpenAI becomes max_completion_tokens, and stays so
C14_Witness ==
    /\ Renormalized
    /\ cfg.host = "api.openai.com"
    /\ cfg.model = "o3"
    /\ prev.cfg.params = <<[k |-> "max", v |-> "0.7"]>>
    /\ cfg.params = <<[k |-> "max_completion_tokens", v |-> "0.7"]>>
    /\ OutParams = cfg.params

(* C15  No spurious changes: for a record whose params are already in      *)
(* canonical and provider-native form, as produced by a previous normalize  *)
(* for the same host and model, normalize with verbose returns an empty     *)
(* change log.                                                              *)
C15_NoSpuriousChanges ==
    (Renormalized /\ opt) => norm.changes = <<>>

(* C16  Output size: normalize's output params have at most as many        *)
(* entries as the input params, except that they have exactly one more only *)
(* when the input has a cache parameter with a duration value for a         *)
(* cache-capable provider / model; never more than one more.                *)
C16_OutputSize ==
    op = "normalize" =>
       /\ Len(OutParams) <= Len(cfg.params) + 1
       /\ Len(OutParams) = Len(cfg.params) + 1 =>
             /\ CacheCapable
             /\ \E i \in 1..Len(cfg.params) :
                   /\ cfg.params[i].k \in CacheKeys
                   /\ cfg.params[i].v \in {"5m", "15m", "1h"}

\* temp=0.7 and cache=5m for Anthropic: two entries in, three out
C16_Witness ==
    /\ op = "normalize"
    /\ cfg.host = "api.anthropic.com"
    /\ cfg.params = <<[k |-> "temp", v |-> "0.7"], [k |-> "cache", v |-> "5m"]>>
    /\ Len(OutParams) = 3
    /\ Keys(OutParams) = {"temperature", "cache_control", "cache_ttl"}

(* C17  Verbose is diagnostic only: normalize with and without verbose      *)
(* returns the same output params and the same provider for every record;   *)
(* without verbose the change log is always empty.                          *)
C17_VerboseDiagnosticOnly ==
    /\ (op = "normalize" /\ ~opt) => norm.changes = <<>>
    /\ Repeated("normalize") =>
          /\ OutParams = prev.norm.config.params
          /\ norm.provider = prev.norm.provider
          /\ norm.config = prev.norm.config

\* max=0.7 for Google: the same maxOutputTokens entry, and a log of two
\* changes only under verbose
C17_Witness ==
    /\ Repeated("normalize")
    /\ opt
    /\ cfg.host = "generativelanguage.googleapis.com"
    /\ cfg.params = <<[k |-> "max", v |-> "0.7"]>>
    /\ OutParams = <<[k |-> "maxOutputTokens", v |-> "0.7"]>>
    /\ prev.norm.config.params = OutParams
    /\ prev.norm.changes = <<>>
    /\ Len(norm.changes) = 2

\* the vendor a model id names by the text before its first slash
PrefixVendor(model) ==
    LET slash == CHOOSE i \in 1..(Len(model) + 1) :
                    /\ i = Len(model) + 1 \/ CharAt(model, i) = "/"
                    /\ \A j \in 1..(i - 1) : CharAt(model, j) # "/"
        prefix == SubSeq(model, 1, slash - 1)
    IN  IF slash <= Len(model)
           /\ prefix \in {"openai", "anthropic", "google", "mistral", "cohere"}
        THEN prefix ELSE undefined

TopKRejections ==
    IssuesSaying(IssuesOf(issues, "topK"), {"topK is not supported on Bedrock by"})

\* the Bedrock model ids of the anthropic, cohere and mistral families
TopKModels ==
    {"anthropic.claude-v1", "us.anthropic.claude-v1", "cohere.command-r-v1",
     "mistral.mistral-large"}

HostHas(text) == Includes(cfg.host, text)

(* C20  detectProvider precedence: a host containing openrouter is          *)
(* openrouter whatever else it contains; otherwise one containing           *)
(* gateway.ai.vercel is vercel; otherwise one containing amazonaws or       *)
(* bedrock is bedrock; only then the vendor substrings are tried in the     *)
(* order openai, anthropic/claude, googleapis/google, mistral, cohere; a    *)
(* host with none of them yields none.  Every host of PROVIDER_META is      *)
(* detected as its own provider.                                            *)
C20_DetectProviderPrecedence ==
    op # "none" =>
       LET gateway == HostHas("openrouter") \/ HostHas("gateway.ai.vercel")
           hosting == HostHas("amazonaws") \/ HostHas("bedrock")
           first   == gateway \/ hosting
           p       == norm.provider
       IN  /\ HostHas("openrouter") => p = "openrouter"
           /\ (~HostHas("openrouter") /\ HostHas("gateway.ai.vercel")) => p = "vercel"
           /\ (~gateway /\ hosting) => p = "bedrock"
           /\ (~first /\ HostHas("openai")) => p = "openai"
           /\ (~first /\ ~HostHas("openai")
                 /\ (HostHas("anthropic") \/ HostHas("claude"))) => p = "anthropic"
           /\ (~first /\ ~HostHas("openai") /\ ~HostHas("anthropic")
                 /\ ~HostHas("claude")
                 /\ (HostHas("googleapis") \/ HostHas("google"))) => p = "google"
           /\ (~first /\ ~HostHas("openai") /\ ~HostHas("anthropic")
                 /\ ~HostHas("claude") /\ ~HostHas("google")
                 /\ HostHas("mistral")) => p = "mistral"
           /\ (~first /\ ~HostHas("openai") /\ ~HostHas("anthropic")
                 /\ ~HostHas("claude") /\ ~HostHas("google")
                 /\ ~HostHas("mistral") /\ HostHas("cohere")) => p = "cohere"
           /\ (\A sig \in Signatures : ~HostHas(sig)) => p = undefined
           /\ \A id \in DOMAIN PROVIDER_META :
                 cfg.host = PROVIDER_META[id] => p = id

\* a Bedrock host that also names a vendor
C20_Witness ==
    /\ op = "normalize"
    /\ cfg.host = "api.anthropic.amazonaws.com"
    /\ norm.provider = "bedrock"

\* the place of the first slash of the record's model id, 0 without one
FirstSlash ==
    IF \E i \in 1..Len(cfg.model) : CharAt(cfg.model, i) = "/"
    THEN CHOOSE i \in 1..Len(cfg.model) :
            /\ CharAt(cfg.model, i) = "/"
            /\ \A j \in 1..(i - 1) : CharAt(cfg.model, j) # "/"
    ELSE 0

\* the text before it
BeforeFirstSlash == SubSeq(cfg.model, 1, FirstSlash - 1)

(* C21  detectGatewaySubProvider returns provider p iff the model contains  *)
(* a slash and the text before the first slash is exactly p, p one of       *)
(* openai, anthropic, google, mistral, cohere; it returns none for a model  *)
(* without slash, for an unrecognized prefix and for the prefixes           *)
(* openrouter, vercel and bedrock.                                          *)
C21_DetectGatewaySubProvider ==
    LET found == detectGatewaySubProvider(cfg.model)
        named == {"openai", "anthropic", "google", "mistral", "cohere"}
    IN  /\ found \in named \cup {undefined}
        /\ \A p \in named :
              found = p <=> (FirstSlash > 0 /\ BeforeFirstSlash = p)
        /\ FirstSlash = 0 => found = undefined
        /\ BeforeFirstSlash \in {"openrouter", "vercel", "bedrock", "qwen"}
              => found = undefined

\* a gateway's own name as prefix names no sub-provider
C21_Witness ==
    /\ op = "normalize"
    /\ cfg.host = "openrouter.ai"
    /\ cfg.model = "bedrock/gpt-4o"
    /\ detectGatewaySubProvider(cfg.model) = undefined

\* the model id is the word, or begins with the word and a dot
BeginsWithSegments(model, word) ==
    \/ model = word
    \/ /\ Len(model) > Len(word)
       /\ SubSeq(model, 1, Len(word) + 1) = word \o "."

RoutingTokens == {"us", "eu", "apac", "global"}

\* the family is the first segment of the record's model id, or the second
\* one behind a routing token
NamesFamily(family) ==
    \/ BeginsWithSegments(cfg.model, family)
    \/ \E token \in RoutingTokens :
          BeginsWithSegments(cfg.model, token \o "." \o family)

(* C22  detectBedrockModelFamily returns the family named by the first      *)
(* dot-separated segment of the model id, after discarding that segment     *)
(* when it is one of the routing tokens us, eu, apac, global and taking the *)
(* next one; the result is one of anthropic, meta, amazon, mistral, cohere, *)
(* ai21 or none.  An id behind a routing token has the family of the id     *)
(* without it, and a cache param on it is handled as on the id without it.  *)
C22_BedrockRoutingPrefix ==
    LET family   == detectBedrockModelFamily(cfg.model)
        families == {"anthropic", "meta", "amazon", "mistral", "cohere", "ai21"}
        unrouted == \A token \in RoutingTokens :
                       ~BeginsWithSegments(cfg.model, token)
        caching  == \/ NamesFamily("anthropic")
                    \/ NamesFamily("amazon") /\ Includes(cfg.model, "nova")
    IN  /\ family \in families \cup {undefined}
        /\ \A f \in families : family = f <=> NamesFamily(f)
        /\ unrouted =>
              \A token \in RoutingTokens :
                 /\ detectBedrockModelFamily(token \o "." \o cfg.model) = family
                 /\ bedrockSupportsCaching(token \o "." \o cfg.model)
                       = bedrockSupportsCaching(cfg.model)
        /\ bedrockSupportsCaching(cfg.model) = caching
        /\ (/\ op = "normalize"
            /\ norm.provider = "bedrock"
            /\ cfg.params = <<[k |-> "cache", v |-> "true"]>>)
           => OutParams = IF caching
                          THEN <<[k |-> "cache_control", v |-> "ephemeral"]>>
                          ELSE <<>>

\* a cross-region inference profile of an Anthropic model keeps its cache
C22_Witness ==
    /\ op = "normalize"
    /\ cfg.host = "bedrock-runtime.us-east-1.amazonaws.com"
    /\ cfg.model = "global.anthropic.claude-v1"
    /\ cfg.params = <<[k |-> "cache", v |-> "true"]>>
    /\ detectBedrockModelFamily(cfg.model) = "anthropic"
    /\ OutParams = <<[k |-> "cache_control", v |-> "ephemeral"]>>

\* the place of the last slash of the record's model id, 0 without one
LastSlash ==
    IF FirstSlash = 0 THEN 0
    ELSE CHOOSE i \in 1..Len(cfg.model) :
            /\ CharAt(cfg.model, i) = "/"
            /\ \A j \in (i + 1)..Len(cfg.model) : CharAt(cfg.model, j) # "/"

\* the record's model id from place n on is named like a reasoning model
ReasoningNameFrom(n) ==
    /\ Len(cfg.model) > n
    /\ CharAt(cfg.model, n) = "o"
    /\ CharAt(cfg.model, n + 1) \in {"1", "3", "4"}

\* validate turned temperature down as unsupported by the reasoning model
SaidReasoningUnsupported ==
    IssuesSaying(issues, {"is not supported by OpenAI reasoning model"}) # <<>>

AnthropicPair ==
    LET nucleus == IF Provider = "bedrock" THEN "topP" ELSE "top_p"
        params  == normalize(cfg, FALSE).config.params
    IN  /\ \/ Provider = "anthropic"
           \/ /\ Provider = "bedrock"
              /\ detectBedrockModelFamily(cfg.model) = "anthropic"
           \/ PrefixProvider = "anthropic"
        /\ HasKey(params, "temperature")
        /\ HasKey(params, nucleus)

\* the issues validate returns for the record's entries from the i-th on,
\* each entry validated as the only one of the record
RECURSIVE IssuesOneByOne(_)
IssuesOneByOne(i) ==
    IF i > Len(cfg.params) THEN <<>>
    ELSE validate([cfg EXCEPT !.params = <<cfg.params[i]>>], opt)
         \o IssuesOneByOne(i + 1)

(* C23  All violations collected: for a known provider and params whose     *)
(* keys normalize to pairwise distinct native names (no two entries are     *)
(* written to the same output key, be it by two spellings of one parameter  *)
(* or by a cache duration next to cache_ttl) and that do not contain the    *)
(* Anthropic temperature + top_p pair, the issue list validate returns for  *)
(* the whole record is the concatenation, in param order, of the issue      *)
(* lists it returns for each parameter on its own.                          *)
C23_AllViolationsCollected ==
    (/\ op = "validate"
     /\ Provider # undefined
     /\ WritesDistinctKeys
     /\ ~AnthropicPair)
    => issues = IssuesOneByOne(1)

\* two params, each with an issue of its own
C23_Witness ==
    /\ op = "validate"
    /\ Provider # undefined
    /\ WritesDistinctKeys
    /\ ~AnthropicPair
    /\ Len(cfg.params) = 2
    /\ Len(issues) = 2
    /\ issues[1].param # issues[2].param
    /\ issues = IssuesOneByOne(1)

(* C24  First match wins: for each entry of the normalized params at most  *)
(* one of the per-parameter checks emits an issue, so validate never        *)
(* returns two issues with the same param.                                  *)
C24_FirstMatchWins ==
    (op = "validate" /\ Provider # undefined) =>
       \A key \in Keys(OutParams) : Len(IssuesOf(issues, key)) <= 1

(* C24 as amended: for each entry of the normalized params at most one of   *)
(* the checks other than the mutual-exclusion check emits an issue; the     *)
(* mutual-exclusion check does not end the entry, so validate returns two   *)
(* issues with the same param only for temperature under the Anthropic      *)
(* rules, "Cannot specify both" followed by a type or range error, and      *)
(* never three.                                                             *)
C24_FirstMatchWinsButExclusion ==
    (op = "validate" /\ Provider # undefined) =>
       /\ \A i \in 1..Len(issues) : issues[i].param \in Keys(OutParams)
       /\ \A key \in Keys(OutParams) :
             LET found  == IssuesOf(issues, key)
                 shared == IssuesSaying(found, {"Cannot specify both"})
             IN  /\ Len(found) - Len(shared) <= 1
                 /\ Len(shared) <= 1
                 /\ Len(found) = 2 =>
                       /\ key = "temperature"
                       /\ AnthropicPair
                       /\ found[1].message[1] = "Cannot specify both"
                       /\ found[2].message[1] \in TypeTexts

\* a temperature that is not a number, next to top_p, on Anthropic
C24_Witness ==
    /\ op = "validate"
    /\ Provider = "anthropic"
    /\ HasKey(OutParams, "top_p")
    /\ Len(IssuesOf(issues, "temperature")) = 2
    /\ issues[1].message[1] = "Cannot specify both"
    /\ issues[2].message[1] = "should be a number"

\* the text is one or more digits followed by m or h
IsDurationText(value) ==
    /\ Len(value) >= 2
    /\ \A i \in 1..(Len(value) - 1) : CharAt(value, i) \in Digits
    /\ CharAt(value, Len(value)) \in {"m", "h"}

\* the value of a cache param that neither switches the cache on nor is a
\* duration
PassedThrough(value) ==
    value \notin {"true", "1", "yes"} /\ ~IsDurationText(value)

\* the record's entries that are about the cache
CacheEntries ==
    {i \in 1..Len(cfg.params) : cfg.params[i].k \in CacheKeys \cup {"cache_ttl"}}

(* C25  Cache value pass-through: for a cache-capable provider / model, a   *)
(* cache parameter whose value is neither true, 1, yes nor a duration is    *)
(* neither dropped nor rewritten: normalize emits it under cache_control    *)
(* with the original value and emits no cache_ttl, and validate then        *)
(* reports an enum error for cache_control when that value is not in the    *)
(* spec's allowed set.                                                      *)
C25_CachePassThrough ==
    (op # "none" /\ CacheCapable) =>
       \A i \in 1..Len(cfg.params) :
          (/\ CacheEntries = {i}
           /\ cfg.params[i].k \in CacheKeys
           /\ PassedThrough(cfg.params[i].v))
          => LET value   == cfg.params[i].v
                 allowed == PARAM_SPECS[Provider]["cache_control"].values
             IN  /\ HasKey(OutParams, "cache_control")
                 /\ ValueOf(OutParams, "cache_control") = value
                 /\ ~HasKey(OutParams, "cache_ttl")
                 /\ op = "validate" =>
                       IssuesOf(issues, "cache_control")
                          = IF value \in allowed THEN <<>>
                            ELSE <<Issue("cache_control", value,
                                         <<"must be one of", "cache_control",
                                           value>>, "error")>>

\* cache=hot on Anthropic comes out as cache_control=hot and is rejected
C25_Witness ==
    /\ op = "validate"
    /\ Provider = "anthropic"
    /\ cfg.params = <<[k |-> "cache", v |-> "hot"]>>
    /\ OutParams = <<[k |-> "cache_control", v |-> "hot"]>>
    /\ Len(issues) = 1
    /\ issues[1].message[1] = "must be one of"

(* C27  Table consistency: for every provider, every native name that is a *)
(* value of the provider's param map has an entry in that provider's spec   *)
(* table; every value of the alias table is a canonical name that is a key  *)
(* of at least one provider's param map and is not itself an alias key.     *)
(* So a param normalize renames through the tables has a spec.              *)
C27_TableConsistency ==
    /\ \A p \in Providers :
          \A canonical \in DOMAIN PROVIDER_PARAMS[p] :
             PROVIDER_PARAMS[p][canonical] \in DOMAIN PARAM_SPECS[p]
    /\ \A alias \in DOMAIN ALIASES :
          /\ \E p \in Providers : ALIASES[alias] \in DOMAIN PROVIDER_PARAMS[p]
          /\ ALIASES[alias] \notin DOMAIN ALIASES
    /\ (op = "normalize" /\ Provider # undefined) =>
          \A i \in 1..Len(OutParams) :
             OutParams[i].k \in Range(PROVIDER_PARAMS[Provider])
                => OutParams[i].k \in DOMAIN PARAM_SPECS[Provider]

\* an alias renamed to the canonical and then to the native name, which has
\* a spec
C27_Witness ==
    /\ op = "normalize"
    /\ Provider = "openrouter"
    /\ Len(cfg.params) = 1
    /\ cfg.params[1].k = "reasoning"
    /\ ALIASES["reasoning"] = "effort"
    /\ PROVIDER_PARAMS["openrouter"]["effort"] = "reasoning_effort"
    /\ Keys(OutParams) = {"reasoning_effort"}
    /\ "reasoning_effort" \in DOMAIN PARAM_SPECS["openrouter"]

\* the canonical name of the record's only param
OnlyCanonical ==
    IF cfg.params[1].k \in DOMAIN ALIASES THEN ALIASES[cfg.params[1].k]
    ELSE cfg.params[1].k

\* the value is of the spec's type, within its range, among its values
Satisfies(spec, value) ==
    CASE spec.type = "number" ->
            /\ IsNumericText(value)
            /\ spec.hasMin => ~NumLess(Number(value), spec.min)
            /\ spec.hasMax => ~NumGreater(Number(value), spec.max)
      [] spec.type = "boolean" -> value \in {"true", "false", "0", "1"}
      [] spec.type = "string" -> (spec.hasValues => value \in spec.values)
      [] OTHER -> FALSE

\* the record's only param is one the provider supports (and, behind a
\* gateway, the vendor addressed too), with a value their specs allow
SupportedAndValid ==
    /\ Len(cfg.params) = 1
    /\ Provider # undefined
    /\ \A q \in {Provider, Addressed} :
          /\ OnlyCanonical \in DOMAIN PROVIDER_PARAMS[q]
          /\ Satisfies(PARAM_SPECS[q][PROVIDER_PARAMS[q][OnlyCanonical]],
                       cfg.params[1].v)

\* the record's only param is turned down for the record's model: a sampling
\* param on a reasoning model, Top-K on a Bedrock family without it
TurnedDownForModel ==
    \E i \in 1..Len(OutParams) :
       \/ IsReasoningUnsupported(Provider, cfg.model, OutParams[i].k)
       \/ IsBedrockTopKUnsupported(Provider, cfg.model, OutParams[i].k)

(* C28  Every key normalize emits for a supported parameter is recognized   *)
(* by validate: for a known provider and a single parameter whose canonical *)
(* name is in the provider's param map and whose value satisfies the spec,  *)
(* validate returns no issue, in non-strict and in strict mode; this covers *)
(* a valid max-tokens value on an OpenAI reasoning model, which normalize   *)
(* renames to max_completion_tokens.                                        *)
C28_EmittedKeysRecognized ==
    (/\ op = "validate"
     /\ SupportedAndValid
     /\ ~TurnedDownForModel)
    => issues = <<>>

\* the record's model is a Bedrock model with prompt caching: an Anthropic
\* model, or an Amazon Nova model
CachingModel ==
    \/ NamesFamily("anthropic")
    \/ NamesFamily("amazon") /\ Includes(cfg.model, "nova")

(* C29  The Bedrock prompt-caching error is unreachable through validate:   *)
(* whenever the Bedrock model does not support caching, normalize has       *)
(* already removed every cache parameter, so the normalized params never    *)
(* contain cache_control and validate never returns the "Prompt caching is  *)
(* only supported" issue.                                                   *)
C29_BedrockCacheErrorUnreachable ==
    /\ (op # "none" /\ Provider = "bedrock" /\ ~CachingModel) =>
          /\ Keys(OutParams) \cap (CacheKeys \cup {"cache_ttl"})
                = Keys(cfg.params) \cap {"cache_ttl"}
          /\ Len(OutParams)
                <= Cardinality({i \in 1..Len(cfg.params) :
                                   cfg.params[i].k \notin CacheKeys})
    /\ op = "validate" =>
          IssuesSaying(issues, {"Prompt caching is only supported"}) = <<>>

\* a cache point on a Titan model is gone before validate looks
C29_Witness ==
    /\ op = "validate"
    /\ Provider = "bedrock"
    /\ cfg.model = "amazon.titan-text"
    /\ ~CachingModel
    /\ cfg.params = <<[k |-> "cachePoint", v |-> "true"]>>
    /\ OutParams = <<>>
    /\ issues = <<>>

(* C30  normalize rewrites keys, not values: every value of the params it  *)
(* returns is the value of some input entry, except the fixed cache value   *)
(* "ephemeral"; host, model, label and apiKey of the returned record equal  *)
(* those of the input, and the input record's params are left unchanged.    *)
C30_KeysNotValues ==
    [][(op = "none" /\ op' # "none") =>
          /\ cfg' = cfg
          /\ norm'.config.host = cfg.host
          /\ norm'.config.model = cfg.model
          /\ norm'.config.label = cfg.label
          /\ norm'.config.apiKey = cfg.apiKey
          /\ \A i \in 1..Len(norm'.config.params) :
                LET out == norm'.config.params[i]
                IN  \/ \E j \in 1..Len(cfg.params) : cfg.params[j].v = out.v
                    \/ out.k = "cache_control" /\ out.v = "ephemeral"]_vars

\* a cache duration on Anthropic: the one value normalize makes up, in a
\* record that keeps its label and its key
C30_Witness ==
    /\ op = "normalize"
    /\ cfg.host = "api.anthropic.com"
    /\ cfg.label = "prod"
    /\ cfg.apiKey = "sk-123"
    /\ cfg.params = <<[k |-> "cache", v |-> "5m"]>>
    /\ norm.config.label = "prod"
    /\ norm.config.apiKey = "sk-123"
    /\ OutParams = <<[k |-> "cache_control", v |-> "ephemeral"],
                     [k |-> "cache_ttl", v |-> "5m"]>>

=============================================================================
